---------------------------- MODULE Spec2Model ----------------------------
(***************************************************************************)
(* TAO dividend / sentiment-stake service.                                 *)
(*                                                                         *)
(*   - the read endpoint GET /api/v1/tao_dividends (app/api/v1/routes.py)  *)
(*     with its token check (app/core/auth.py), the redis TTL cache and    *)
(*     the two Celery jobs it enqueues;                                    *)
(*   - the Celery task process_sentiment_and_stake with                    *)
(*     submit_stake_adjustment (app/tasks/background_tasks.py,             *)
(*     app/services/staking.py, app/services/chutes.py, datura.py);        *)
(*   - the Celery task store_dividends_batch_task.                         *)
(*                                                                         *)
(* Python values are tagged records [t, v] so that values of different     *)
(* Python types stay comparable.  Floats are exact rationals: a dividend   *)
(* is an integer amount, a stake amount is a fraction [num, den].          *)
(***************************************************************************)
EXTENDS Integers, Sequences, FiniteSets, TLC

VARIABLES now, cache, req, nreq, batchQueue, stakeQueue,
          wf, nruns, stakeCalls, stakeOps, bt, nbatches, dividendsTable,
          pool, race

vars == <<now, cache, req, nreq, batchQueue, stakeQueue,
          wf, nruns, stakeCalls, stakeOps, bt, nbatches, dividendsTable,
          pool, race>>

(* pool is the ThreadPoolExecutor of one fan-out, race two requests for a   *)
(* single key served at the same time.                                      *)
concVars == <<pool, race>>

readVars == <<now, cache, req, nreq>>
workerVars == <<wf, nruns, stakeCalls, stakeOps, bt, nbatches, dividendsTable>>

----------------------------------------------------------------------------
(* Bounds of the model *)

MaxRequests == 2
MaxTicks == 2
MaxRuns == 2
MaxBatches == 2

(* The longest list of subnets handed to one fan-out: one more than the     *)
(* pool has threads.                                                        *)
MaxSubnets == 11

(* Seconds that pass in one Tick step; half the TTL, so that a lookup can   *)
(* fall inside the TTL window, exactly on the expiry, and after it.         *)
TickStep == 60

----------------------------------------------------------------------------
(* Program constants *)

CACHE_EXPIRATION == 120
MAX_WORKERS == 10
SCORE_MIN == -100
SCORE_MAX == 100

(* netuid: int = None.  None is the integer -1, which no subnet uses.       *)
NoNetuid == -1
(* settings.wallet_netuid, settings.wallet_hotkey, settings.api_key: set by *)
(* the environment; any fixed values.                                       *)
wallet_netuid == 2
wallet_hotkey == "hkW"
api_key == "secret"

----------------------------------------------------------------------------
(* Domains of the inputs *)

Netuids == {0, 1}
Hotkeys == {"hkA", "hkB"}

(* The Authorization header: absent, or one of these strings.               *)
NoHeader == <<>>
Bearer(key) == <<"Bearer", key>>
AuthHeaders == {NoHeader, Bearer(api_key), Bearer("wrong"), <<"Basic", api_key>>}

----------------------------------------------------------------------------
(* Python values *)

PyNone == [t |-> "none", v |-> 0]
PyFloat(n) == [t |-> "float", v |-> n]
PyBool(b) == [t |-> "bool", v |-> IF b THEN 1 ELSE 0]
PyEmptyDict == [t |-> "dict", v |-> 0]
(* bytes holding the decimal text of the number n (what redis returns)      *)
PyBytes(n) == [t |-> "bytes", v |-> n]

(* Python truth value: `if x`, `not x`, `x or y`.  A bytes object holding   *)
(* the text of a number is never empty, hence true.                         *)
Truthy(x) ==
    CASE x.t = "none" -> FALSE
      [] x.t = "float" -> x.v # 0
      [] x.t = "bool" -> x.v # 0
      [] x.t = "dict" -> FALSE
      [] x.t = "bytes" -> TRUE

(* The rows of a dividend map {hotkey: amount} as Python floats             *)
PyMap(m) == [h \in DOMAIN m |-> PyFloat(m[h])]

----------------------------------------------------------------------------
(* The token check *)

(* A token check that lets every request through.                          *)
verify_token_any(authorization) == 0

(* Depends(verify_token) with authorization: str = Header(...): the header  *)
(* is a required parameter, so a request without it is answered 422 by the  *)
(* parameter validation before the function body runs; the body raises 401  *)
(* unless the header is exactly "Bearer <api_key>".  0 = the check passed.  *)
verify_token(authorization) ==
    IF authorization = NoHeader THEN 422
    ELSE IF authorization # Bearer(api_key) THEN 401
    ELSE 0

----------------------------------------------------------------------------
(* The shared cache store (redis) *)

cache_key(netuid, hotkey) == <<netuid, hotkey>>

(* redis GET at time t: the stored bytes, or None when the key is absent or *)
(* its time to live has run out.                                            *)
RedisGet(store, key, t) ==
    IF key \in DOMAIN store /\ t < store[key].expires_at
    THEN store[key].value
    ELSE PyNone

(* redis-py encodes bytes, str, int and float; a bool, a dict or any other  *)
(* object raises DataError.                                                 *)
Encodable(value) == value.t \in {"float", "bytes"}

(* A setex that keeps an entry that has not expired.                        *)
RedisSetexIfAbsent(store, key, ttl, value, t) ==
    IF key \in DOMAIN store /\ t < store[key].expires_at
    THEN store
    ELSE [k \in DOMAIN store \cup {key} |->
             IF k = key
             THEN [value |-> PyBytes(value.v), expires_at |-> t + ttl,
                   written_at |-> t, served |-> value]
             ELSE store[k]]

(* redis SETEX key ttl value at time t.  written_at and served are not part *)
(* of the store: they remember when the entry was written and the dividend  *)
(* the writing request puts in its response row.                            *)
RedisSetex(store, key, ttl, value, t) ==
    [k \in DOMAIN store \cup {key} |->
        IF k = key
        THEN [value |-> PyBytes(value.v), expires_at |-> t + ttl,
              written_at |-> t, served |-> value]
        ELSE store[k]]

----------------------------------------------------------------------------
(* The registry (bittensor) *)

(* The dividend maps {hotkey: amount} a subnet can have: empty, one hotkey  *)
(* with a positive or a zero dividend, two hotkeys.                         *)
DividendMaps == {<<>>, "hkA" :> 5, "hkA" :> 0, ("hkA" :> 5) @@ ("hkB" :> 0)}

(* What one call of get_hotkeys_and_dividends_for_netuid can give: None     *)
(* when bts.get_dividends_for_all_hot_keys raised, else {netuid: dividends} *)
FetchOutcomes ==
    {[ok |-> FALSE, map |-> <<>>]} \cup {[ok |-> TRUE, map |-> m] : m \in DividendMaps}

get_hotkeys_and_dividends_for_netuid(netuid, outcome) ==
    IF outcome.ok THEN netuid :> PyMap(outcome.map) ELSE <<>>

(* A fan-out that gives up when one fetch failed.                           *)
ThreadpoolAllOrNothing(netuids, outcomes) ==
    IF \E x \in netuids : ~outcomes[x].ok
    THEN <<>>
    ELSE [n \in netuids |-> PyMap(outcomes[n].map)]

(* executor.map over the netuids, then the update of every result that is   *)
(* not None into one dict.                                                  *)
get_hotkeys_and_dividends_for_all_netuids_threadpool(netuids, outcomes) ==
    [n \in {x \in netuids : outcomes[x].ok} |-> PyMap(outcomes[n].map)]

----------------------------------------------------------------------------
(* The job queue (Celery) *)

(* task.delay(args): appended to the broker's queue, or an exception when   *)
(* the broker cannot be reached.                                            *)
Delay(queue, job, brokerUp) == IF brokerUp THEN Append(queue, job) ELSE queue

----------------------------------------------------------------------------
(* The read endpoint: get_tao_dividends *)

IdleReq ==
    [pc |-> "idle", auth |-> NoHeader, netuid |-> NoNetuid, hotkey |-> "",
     trade |-> FALSE, staking_netuid |-> NoNetuid, staking_hotkey |-> "",
     cached |-> FALSE, msg |-> "", nhd |-> <<>>, dividend |-> PyNone,
     listed |-> FALSE, all_netuids |-> {},
     listing |-> [ok |-> FALSE, netuids |-> {}], fetched |-> <<>>,
     cacheDown |-> FALSE, brokerDown |-> FALSE, readOn |-> {},
     status |-> 0, success |-> FALSE, result |-> {},
     regReads |-> {}, cacheGets |-> 0, cacheSets |-> {},
     entryAge |-> -1, servedAtGet |-> PyNone,
     batches |-> 0, stakeArgs |-> {}, staked |-> {}]

(* staking_netuid = netuid if netuid is not None else settings.wallet_netuid *)
StakingNetuid(netuid) == IF netuid # NoNetuid THEN netuid ELSE wallet_netuid

(* staking_hotkey = hotkey or settings.wallet_hotkey                        *)
StakingHotkey(hotkey) == IF hotkey # "" THEN hotkey ELSE wallet_hotkey

(* The request arrives: the token check, then the locals of lines 118-124.  *)
(* A request is taken up once the jobs of the one before have left the      *)
(* broker: the endpoint never reads the queues, so this only keeps them     *)
(* short.                                                                   *)
(* entryAge (seconds since the looked-up cache entry was written, -1 when   *)
(* there is none), servedAtGet, regReads, cacheGets, cacheSets, batches,    *)
(* stakeArgs (the arguments of the stake job's delay) and staked (the jobs  *)
(* that reached the queue) record what the request did; listing and fetched *)
(* what the registry answered, cacheDown and brokerDown that a call to the  *)
(* cache store or to the broker raised, readOn where the request's         *)
(* registry dividend reads ran ("pool": a thread of the ThreadPoolExecutor, *)
(* "handler": the coroutine of the request itself).                         *)
Receive(auth, netuid, hotkey, trade) ==
    /\ req.pc \in {"idle", "done"}
    /\ nreq < MaxRequests
    /\ batchQueue = <<>> /\ stakeQueue = <<>>
    /\ nreq' = nreq + 1
    /\ LET base == [IdleReq EXCEPT !.auth = auth, !.netuid = netuid,
                                   !.hotkey = hotkey, !.trade = trade]
           code == verify_token(auth)
       IN req' = IF code # 0
                 THEN [base EXCEPT !.pc = "done", !.status = code]
                 ELSE [base EXCEPT !.pc = "lookup",
                                   !.staking_netuid = StakingNetuid(netuid),
                                   !.staking_hotkey = StakingHotkey(hotkey)]
    /\ UNCHANGED concVars
    /\ UNCHANGED <<now, cache, batchQueue, stakeQueue, workerVars>>

(* except Exception at line 211: the response of a request that raised.     *)
Raised(r) ==
    [r EXCEPT !.pc = "done", !.status = 200, !.success = FALSE,
              !.msg = "exception", !.result = {}]

(* A test of the netuid's truth value, which 0 fails as None does.          *)
IfNetuidFalsy(netuid) == netuid = NoNetuid \/ netuid = 0

(* if netuid is None (line 130)                                             *)
NetuidOmitted(netuid) == netuid = NoNetuid

(* A test that never takes the subnet-only branch.                          *)
HotkeyNeverOmitted(hotkey) == FALSE

(* elif not hotkey (line 144)                                               *)
HotkeyOmitted(hotkey) == hotkey = ""

(* What bts.get_all_netuids can give: an exception, or a list of netuids.   *)
Listings ==
    {[ok |-> FALSE, netuids |-> {}]} \cup {[ok |-> TRUE, netuids |-> S] : S \in SUBSET Netuids}

(* A failed listing that falls back to the configured subnet.               *)
AllNetuidsOrDefault(listing) ==
    IF listing.ok THEN listing.netuids ELSE {wallet_netuid}

(* all_netuids: the list, or [] when listing raised (lines 133-138).        *)
AllNetuids(listing) == IF listing.ok THEN listing.netuids ELSE {}

(* netuid is None: list the subnets, fetch every subnet (lines 130-142).    *)
LookupAll ==
    /\ req.pc = "lookup"
    /\ NetuidOmitted(req.netuid)
    /\ \E listing \in Listings :
         LET all_netuids == AllNetuids(listing)
         IN \E outcomes \in [all_netuids -> FetchOutcomes] :
              LET nhd == get_hotkeys_and_dividends_for_all_netuids_threadpool(
                             all_netuids, outcomes)
              IN req' = [req EXCEPT !.pc = "build", !.listed = TRUE,
                                    !.listing = listing,
                                    !.fetched = outcomes,
                                    !.readOn = IF all_netuids = {} THEN {}
                                               ELSE {"pool"},
                                    !.all_netuids = all_netuids,
                                    !.regReads = all_netuids,
                                    !.nhd = nhd,
                                    !.msg = IF DOMAIN nhd = {}
                                            THEN "not_found_netuids" ELSE ""]
    /\ UNCHANGED concVars
    /\ UNCHANGED <<now, cache, nreq, batchQueue, stakeQueue, workerVars>>

(* netuid given, hotkey empty: fetch that subnet (lines 144-149).           *)
LookupSubnet ==
    /\ req.pc = "lookup"
    /\ ~NetuidOmitted(req.netuid)
    /\ HotkeyOmitted(req.hotkey)
    /\ \E outcome \in FetchOutcomes :
         LET nhd == get_hotkeys_and_dividends_for_netuid(req.netuid, outcome)
         IN req' = [req EXCEPT !.pc = "build",
                               !.regReads = {req.netuid},
                               !.fetched = req.netuid :> outcome,
                               !.readOn = {"handler"},
                               !.nhd = nhd,
                               !.msg = IF DOMAIN nhd = {}
                                       THEN "not_found_hotkeys" ELSE ""]
    /\ UNCHANGED concVars
    /\ UNCHANGED <<now, cache, nreq, batchQueue, stakeQueue, workerVars>>

(* The dividend a cache hit puts in the row.  Line 156 overwrites `cached`  *)
(* with True before line 157 uses it as the dividend.                       *)
HitDividend(value) == PyBool(TRUE)

(* A hit that reads the registry all the same.                              *)
AfterGetAlwaysRead(value) == "read"

(* if cached: ... else: ... (lines 155-160): a hit goes on to the rows, a   *)
(* miss to the registry read.                                               *)
AfterGet(value) == IF Truthy(value) THEN "build" ELSE "read"

(* netuid and hotkey given: the cache lookup (lines 153-159).               *)
CacheGet ==
    /\ req.pc = "lookup"
    /\ ~NetuidOmitted(req.netuid)
    /\ ~HotkeyOmitted(req.hotkey)
    /\ \E redisUp \in BOOLEAN :
         LET key == cache_key(req.netuid, req.hotkey)
             value == RedisGet(cache, key, now)
             seen == [req EXCEPT !.cacheGets = @ + 1,
                         !.entryAge = IF key \in DOMAIN cache
                                      THEN now - cache[key].written_at ELSE -1,
                         !.servedAtGet = IF key \in DOMAIN cache
                                         THEN cache[key].served ELSE PyNone]
         IN req' = IF ~redisUp THEN [Raised(req) EXCEPT !.cacheDown = TRUE]
                   ELSE IF Truthy(value)
                   THEN [seen EXCEPT !.pc = AfterGet(value), !.cached = TRUE,
                             !.nhd = req.netuid :> (req.hotkey :> HitDividend(value))]
                   ELSE [seen EXCEPT !.pc = AfterGet(value), !.cached = FALSE]
    /\ UNCHANGED concVars
    /\ UNCHANGED <<now, cache, nreq, batchQueue, stakeQueue, workerVars>>

(* An extraction that takes an amount of the map, whatever its key.         *)
ExtractAny(res, netuid, hotkey) ==
    IF netuid \in DOMAIN res /\ DOMAIN res[netuid] # {}
    THEN res[netuid][CHOOSE h \in DOMAIN res[netuid] : TRUE]
    ELSE PyEmptyDict

(* res.get(netuid, {}).get(hotkey, {})                                      *)
Extract(res, netuid, hotkey) ==
    IF netuid \in DOMAIN res /\ hotkey \in DOMAIN res[netuid]
    THEN res[netuid][hotkey]
    ELSE PyEmptyDict

(* The cache missed: the registry read (lines 160-169).                     *)
RegistryRead ==
    /\ req.pc = "read"
    /\ \E outcome \in FetchOutcomes :
         LET res == get_hotkeys_and_dividends_for_netuid(req.netuid, outcome)
             dividend == Extract(res, req.netuid, req.hotkey)
         IN req' = IF DOMAIN res = {}
                   THEN [req EXCEPT !.pc = "build", !.regReads = {req.netuid},
                                    !.fetched = req.netuid :> outcome,
                                    !.readOn = {"handler"},
                                    !.msg = "no_data"]
                   ELSE [req EXCEPT !.pc = "store", !.regReads = {req.netuid},
                                    !.fetched = req.netuid :> outcome,
                                    !.readOn = {"handler"},
                                    !.dividend = dividend,
                                    !.msg = IF ~Truthy(dividend)
                                            THEN "dividend_not_found" ELSE "",
                                    !.nhd = req.netuid :> (req.hotkey :> dividend)]
    /\ UNCHANGED concVars
    /\ UNCHANGED <<now, cache, nreq, batchQueue, stakeQueue, workerVars>>

(* A time to live twice the configured one.                                 *)
TtlTwice == 2 * CACHE_EXPIRATION

(* The time to live given to setex (line 170).                              *)
Ttl == CACHE_EXPIRATION

(* await redis_instance.setex(cache_key, CACHE_EXPIRATION, dividend)        *)
CacheSet ==
    /\ req.pc = "store"
    /\ \E redisUp \in BOOLEAN :
         LET key == cache_key(req.netuid, req.hotkey)
         IN IF redisUp /\ Encodable(req.dividend)
            THEN /\ cache' = RedisSetex(cache, key, Ttl, req.dividend, now)
                 /\ req' = [req EXCEPT !.pc = "build", !.cacheSets = @ \cup {key}]
            ELSE /\ cache' = cache
                 /\ req' = [Raised(req) EXCEPT !.cacheDown = ~redisUp]
    /\ UNCHANGED concVars
    /\ UNCHANGED <<now, nreq, batchQueue, stakeQueue, workerVars>>

(* A flag that is never set.                                                *)
StakeTxNeverTriggered(trade) == FALSE

(* 'stake_tx_triggered': trade (line 190): the request's flag, written into *)
(* the row before the stake job's delay is tried.                           *)
StakeTxTriggered(trade) == trade

(* The rows of lines 178-192.                                               *)
ResponseItems(nhd, trade, cached) ==
    UNION {{[netuid |-> n, hotkey |-> h, dividend |-> nhd[n][h],
             stake_tx_triggered |-> StakeTxTriggered(trade), cached |-> cached] :
                h \in DOMAIN nhd[n]} : n \in DOMAIN nhd}

(* dividends_to_store, lines 180-184                                        *)
DividendsToStore(nhd) ==
    UNION {{[netuid |-> n, hotkey |-> h, amount |-> nhd[n][h], extra |-> FALSE] :
                h \in DOMAIN nhd[n]} : n \in DOMAIN nhd}

(* The stake job enqueued whatever the flag.                                *)
WantsStakeAlways(trade) == TRUE

(* if trade: at line 203                                                    *)
WantsStake(trade) == trade

(* An enqueue failure that reaches the handler's outer except.              *)
Propagated(r, brokerUp) == IF brokerUp THEN r ELSE Raised(r)

(* try: task.delay(...) except Exception: logger.error(...) (lines 195-200  *)
(* and 204-208): the failure is logged and the handler goes on.             *)
Swallowed(r, brokerUp) == r

(* A handler that waits for the result of its jobs before it returns.      *)
AfterDelayAwait == "await"

(* return {'success': True, 'result': response_items} (line 210) follows    *)
(* the delay calls at once: no task result is awaited.                      *)
AfterDelay == "done"

(* A handler without the early return.                                      *)
NothingFoundNever(nhd) == FALSE

(* if not netuid_hotkeys_dividends (line 172): the outer dict is empty.     *)
NothingFound(nhd) == DOMAIN nhd = {}

(* Lines 172-210: the early return when nothing was found, else the rows,   *)
(* the batch job, the stake job and the response.                           *)
Build ==
    /\ req.pc = "build"
    /\ IF NothingFound(req.nhd)
       THEN /\ req' = [req EXCEPT !.pc = "done", !.status = 200,
                                  !.success = FALSE, !.result = {}]
            /\ UNCHANGED <<batchQueue, stakeQueue>>
       ELSE \E batchUp \in BOOLEAN, stakeUp \in BOOLEAN :
              LET job == <<req.staking_netuid, req.staking_hotkey>>
              IN /\ batchQueue' = Delay(batchQueue, DividendsToStore(req.nhd), batchUp)
                 /\ stakeQueue' = IF WantsStake(req.trade)
                                  THEN Delay(stakeQueue, job, stakeUp)
                                  ELSE stakeQueue
                 /\ req' = Swallowed(Swallowed(
                        [req EXCEPT
                          !.pc = AfterDelay, !.status = 200, !.success = TRUE,
                          !.msg = "",
                          !.result = ResponseItems(req.nhd, req.trade, req.cached),
                          !.batches = IF batchUp THEN 1 ELSE 0,
                          !.brokerDown = ~batchUp \/ (WantsStake(req.trade) /\ ~stakeUp),
                          !.stakeArgs = IF WantsStake(req.trade) THEN {job} ELSE {},
                          !.staked = IF WantsStake(req.trade) /\ stakeUp
                                     THEN {job} ELSE {}],
                        batchUp), ~WantsStake(req.trade) \/ stakeUp)
    /\ UNCHANGED concVars
    /\ UNCHANGED <<now, cache, nreq, workerVars>>

(* A Celery worker takes the oldest job of a queue off the broker.  What    *)
(* the worker then does with it is the subject of SpecStake and SpecBatch;  *)
(* the endpoint never reads the queues.                                     *)
TakeJob ==
    /\ \/ /\ batchQueue # <<>>
          /\ batchQueue' = Tail(batchQueue)
          /\ UNCHANGED stakeQueue
       \/ /\ stakeQueue # <<>>
          /\ stakeQueue' = Tail(stakeQueue)
          /\ UNCHANGED batchQueue
    /\ UNCHANGED concVars
    /\ UNCHANGED <<now, cache, req, nreq, workerVars>>

(* Time passes.                                                             *)
Tick ==
    /\ now < MaxTicks * TickStep
    /\ now' = now + TickStep
    /\ UNCHANGED concVars
    /\ UNCHANGED <<cache, req, nreq, batchQueue, stakeQueue, workerVars>>

----------------------------------------------------------------------------
(* Rational numbers [num, den] with den > 0, for the stake amounts *)

Rat(n, d) == [num |-> n, den |-> d]
RatMul(a, b) == Rat(a.num * b.num, a.den * b.den)
RatAbs(a) == Rat(IF a.num < 0 THEN -a.num ELSE a.num, a.den)
RatEq(a, b) == a.num * b.den = b.num * a.den

----------------------------------------------------------------------------
(* The sentiment score: extract_sentiment_score and get_sentiment *)

PyInt(n) == [t |-> "int", v |-> n]

(* The text of the model's reply, as a sequence of tokens: a word without   *)
(* digits, or a run of digits with an optional minus sign in front.         *)
Word == [kind |-> "word", v |-> 0]
Num(n) == [kind |-> "int", v |-> n]

ScoreValues == {-101, -100, -50, 0, 100, 101, 150}
Tokens == {Word} \cup {Num(n) : n \in ScoreValues}
Contents == {<<>>} \cup {<<a>> : a \in Tokens} \cup {<<a, b>> : a \in Tokens, b \in Tokens}

(* The replies of the scoring API: the request raised; a JSON reply without *)
(* choices[0].message.content; a reply with a content.                      *)
Replies ==
    {[http |-> "raised", content |-> <<>>], [http |-> "no_choices", content |-> <<>>]}
    \cup {[http |-> "ok", content |-> c] : c \in Contents}

(* re.search(r"(-?\d+)", content): the position of the first run of digits, *)
(* 0 when there is none.                                                    *)
RECURSIVE search(_, _)
search(content, i) ==
    IF i > Len(content) THEN 0
    ELSE IF content[i].kind = "int" THEN i
    ELSE search(content, i + 1)

(* extract_sentiment_score: int(match.group(1)) of the first match, None    *)
(* when nothing matches or the reply has no content (KeyError, IndexError). *)
extract_sentiment_score(response) ==
    IF response.http # "ok" THEN PyNone
    ELSE LET m == search(response.content, 1)
         IN IF m # 0 THEN PyInt(response.content[m].v) ELSE PyNone

(* get_sentiment: the score of the reply, None when the request raised.     *)
get_sentiment(reply) ==
    IF reply.http = "raised" THEN PyNone ELSE extract_sentiment_score(reply)

----------------------------------------------------------------------------
(* The Celery task process_sentiment_and_stake *)

IdleRun ==
    [pc |-> "idle", run |-> 0, netuid |-> NoNetuid, hotkey |-> "",
     tweets |-> "", score |-> PyNone, ended |-> "", scored |-> 0, calls |-> 0,
     rows |-> 0,
     outcome |-> "", trail |-> <<>>]

(* The jobs the endpoint can enqueue: (staking_netuid, staking_hotkey).     *)
StakeJobs == {<<n, h>> : n \in {0, wallet_netuid}, h \in {"hkA", wallet_hotkey}}

(* process_sentiment_and_stake.delay(netuid, hotkey) by a request           *)
DelayStake(netuid, hotkey) ==
    /\ nruns + Len(stakeQueue) < MaxRuns
    /\ stakeQueue' = Delay(stakeQueue, <<netuid, hotkey>>, TRUE)
    /\ UNCHANGED concVars
    /\ UNCHANGED <<readVars, batchQueue, workerVars>>

(* A worker takes the job and starts the task.                              *)
StartRun ==
    /\ wf.pc \in {"idle", "done"}
    /\ stakeQueue # <<>>
    /\ nruns < MaxRuns
    /\ nruns' = nruns + 1
    /\ stakeQueue' = Tail(stakeQueue)
    /\ wf' = [IdleRun EXCEPT !.pc = "fetch", !.run = nruns + 1,
                             !.netuid = Head(stakeQueue)[1],
                             !.hotkey = Head(stakeQueue)[2]]
    /\ UNCHANGED concVars
    /\ UNCHANGED <<readVars, batchQueue, stakeCalls, stakeOps, bt, nbatches,
                   dividendsTable>>

(* A run that starts over when a step gives up.                             *)
EndedRetried(r, why) == [r EXCEPT !.pc = "fetch", !.ended = why]

(* The run ends here: the task returns, and no retry is configured.         *)
Ended(r, why) == [r EXCEPT !.pc = "done", !.ended = why]

(* A check that only catches the None of a failed fetch.                    *)
NoTweetsIsNone(tweets) == tweets = "raised"

(* if not tweets (line 117): None and the empty list.                       *)
NoTweets(tweets) == tweets # "items"

(* get_tweets: a list of items, an empty list, or None after an exception;  *)
(* `if not tweets: return` (lines 116-119).                                 *)
FetchSignal ==
    /\ wf.pc = "fetch"
    /\ \E tweets \in {"items", "empty", "raised"} :
         LET r == [wf EXCEPT !.tweets = tweets, !.trail = Append(@, "fetch")]
         IN wf' = IF NoTweets(tweets)
                  THEN Ended(r, "no_tweets")
                  ELSE [r EXCEPT !.pc = "score"]
    /\ UNCHANGED concVars
    /\ UNCHANGED <<readVars, batchQueue, stakeQueue, nruns, stakeCalls, stakeOps,
                   bt, nbatches, dividendsTable>>

(* The range check with the bounds excluded.                                *)
InRangeExclusive(score) == SCORE_MIN < score /\ score < SCORE_MAX

(* if not -100 <= sentiment_score <= 100 (line 127)                         *)
InRange(score) == SCORE_MIN <= score /\ score <= SCORE_MAX

(* The scoring call and the two checks of its result (lines 122-129).       *)
Score ==
    /\ wf.pc = "score"
    /\ \E reply \in Replies :
         LET sentiment_score == get_sentiment(reply)
             r == [wf EXCEPT !.score = sentiment_score, !.scored = @ + 1,
                             !.trail = Append(@, "score")]
         IN wf' = IF sentiment_score = PyNone
                  THEN Ended(r, "no_score")
                  ELSE IF ~InRange(sentiment_score.v)
                  THEN Ended(r, "out_of_range")
                  ELSE [r EXCEPT !.pc = "submit"]
    /\ UNCHANGED concVars
    /\ UNCHANGED <<readVars, batchQueue, stakeQueue, nruns, stakeCalls, stakeOps,
                   bt, nbatches, dividendsTable>>

(* The amount without its sign.                                             *)
StakeAmountAbs(sentiment_score) ==
    RatAbs(RatMul(Rat(1, 10), Rat(sentiment_score, 1)))

(* amount = 0.1 * sentiment_score (line 71)                                 *)
StakeAmount(sentiment_score) == RatMul(Rat(1, 10), Rat(sentiment_score, 1))

(* A zero score treated as positive.                                        *)
OperationNonNegative(sentiment_score) ==
    IF sentiment_score >= 0 THEN "stake" ELSE "unstake"

(* The operation of submit_stake_adjustment for a score (lines 74-103).     *)
Operation(sentiment_score) ==
    IF sentiment_score > 0 THEN "stake"
    ELSE IF sentiment_score < 0 THEN "unstake"
    ELSE "none"

(* The signed amount handed to both calls.                                  *)
CallAmountSigned(sentiment_score) == StakeAmount(sentiment_score)

(* The amount handed to bts.add_stake / bts.unstake (lines 80, 94)          *)
CallAmount(sentiment_score) ==
    IF sentiment_score > 0 THEN StakeAmount(sentiment_score)
    ELSE RatAbs(StakeAmount(sentiment_score))

(* The registry call of submit_stake_adjustment.                            *)
StakeCall(r) ==
    [run |-> r.run, operation |-> Operation(r.score.v), netuid |-> r.netuid,
     hotkey_ss58 |-> r.hotkey, amount |-> CallAmount(r.score.v)]

(* submit_stake_adjustment up to the registry call: add_stake or unstake    *)
(* returns True or False or raises; a zero score returns at once.           *)
Submit ==
    /\ wf.pc = "submit"
    /\ IF Operation(wf.score.v) = "none"
       THEN /\ wf' = Ended(wf, "zero")
            /\ UNCHANGED stakeCalls
       ELSE \E outcome \in {"true", "false", "raised"} :
              /\ stakeCalls' = stakeCalls \cup {StakeCall(wf)}
              /\ wf' = [wf EXCEPT !.pc = "record", !.calls = @ + 1,
                                  !.outcome = outcome,
                                  !.trail = Append(@, "submit")]
    /\ UNCHANGED concVars
    /\ UNCHANGED <<readVars, batchQueue, stakeQueue, nruns, stakeOps,
                   bt, nbatches, dividendsTable>>

(* The status that ignores the outcome of the call.                         *)
StatusCompleted(outcome) == "completed"

(* 'completed' if success else 'failed' (line 111)                          *)
Status(outcome) == IF outcome = "true" THEN "completed" ELSE "failed"

(* sentiment_data (lines 105-112)                                           *)
SentimentData(r) ==
    [run |-> r.run, netuid |-> r.netuid, hotkey |-> r.hotkey,
     sentiment_score |-> r.score.v, amount |-> StakeAmount(r.score.v),
     operation |-> Operation(r.score.v), status |-> Status(r.outcome)]

(* stake_store_async: add and commit, or rollback when the commit raises.   *)
Record ==
    /\ wf.pc = "record"
    /\ \E committed \in BOOLEAN :
         /\ stakeOps' = IF committed THEN stakeOps \cup {SentimentData(wf)} ELSE stakeOps
         /\ wf' = [Ended(wf, IF committed THEN "recorded" ELSE "store_failed")
                      EXCEPT !.rows = IF committed THEN @ + 1 ELSE @,
                             !.trail = Append(@, "record")]
    /\ UNCHANGED concVars
    /\ UNCHANGED <<readVars, batchQueue, stakeQueue, nruns, stakeCalls,
                   bt, nbatches, dividendsTable>>

StakeWorker ==
    \/ \E job \in StakeJobs : DelayStake(job[1], job[2])
    \/ StartRun
    \/ FetchSignal
    \/ Score
    \/ Submit
    \/ Record

----------------------------------------------------------------------------
(* The Celery task store_dividends_batch_task *)

IdleBatch == [id |-> 0, batch |-> {}, outcome |-> ""]

(* The rows a batch can hold: what the endpoint sends, and malformed rows   *)
(* (a key that is no column of Dividend, an amount that is None).           *)
BatchRows ==
    {[netuid |-> n, hotkey |-> "hkA", amount |-> a, extra |-> x] :
        n \in {0, 1}, a \in {PyFloat(5), PyBool(TRUE), PyNone}, x \in BOOLEAN}

Batches == {b \in SUBSET BatchRows : Cardinality(b) \in 1..2}

(* store_dividends_batch_task.delay(dividends_to_store)                     *)
DelayBatch(batch) ==
    /\ nbatches + Len(batchQueue) < MaxBatches
    /\ batchQueue' = Delay(batchQueue, batch, TRUE)
    /\ UNCHANGED concVars
    /\ UNCHANGED <<readVars, stakeQueue, workerVars>>

(* A constructor that ignores unknown keys.                                 *)
ConstructibleAny(row) == TRUE

(* The Dividend constructor raises TypeError for a key that is no column.   *)
Constructible(row) == ~row.extra

(* The insert of the row succeeds: amount is a Float column, nullable=False *)
Insertable(row) == row.amount.t \in {"float", "bool"}

(* The row of the dividends table for a dict of the batch.                  *)
DividendRow(id, row) ==
    [batch |-> id, netuid |-> row.netuid, hotkey |-> row.hotkey,
     amount |-> row.amount.v]

(* The batch commits when every row can be constructed and inserted and the *)
(* database accepts the commit; anything else ends in db.rollback().        *)
Commits(batch, dbUp) ==
    /\ dbUp
    /\ \A row \in batch : Constructible(row) /\ Insertable(row)

(* A worker takes the job and runs store_using_async_session (lines 73-94). *)
StoreBatch ==
    /\ batchQueue # <<>>
    /\ nbatches < MaxBatches
    /\ nbatches' = nbatches + 1
    /\ batchQueue' = Tail(batchQueue)
    /\ \E dbUp \in BOOLEAN :
         LET batch == Head(batchQueue)
             id == nbatches + 1
         IN IF Commits(batch, dbUp)
            THEN /\ dividendsTable' =
                        dividendsTable \cup {DividendRow(id, row) : row \in batch}
                 /\ bt' = [id |-> id, batch |-> batch, outcome |-> "committed"]
            ELSE /\ dividendsTable' = dividendsTable
                 /\ bt' = [id |-> id, batch |-> batch, outcome |-> "rolled_back"]
    /\ UNCHANGED concVars
    /\ UNCHANGED <<readVars, stakeQueue, wf, nruns, stakeCalls, stakeOps>>

BatchWorker ==
    \/ \E batch \in Batches : DelayBatch(batch)
    \/ StoreBatch

----------------------------------------------------------------------------
(* The thread pool of get_hotkeys_and_dividends_for_all_netuids_threadpool *)

(* queue holds the submitted calls no thread has taken yet, running the     *)
(* calls on a thread, results what the finished calls returned; started     *)
(* counts, for every netuid, the calls of the fetch that began.             *)
IdlePool ==
    [pc |-> "idle", netuids |-> {}, queue |-> <<>>, running |-> {},
     results |-> <<>>, started |-> <<>>, data |-> <<>>]

(* What a fetch of the fan-out gives here: None, or a map with one key.     *)
PoolOutcomes == {o \in FetchOutcomes : ~o.ok \/ o.map = "hkA" :> 5}

(* executor.map(get_hotkeys_and_dividends_for_netuid, netuids) (line 61):   *)
(* one call is submitted for every netuid of the list.                      *)
PoolSubmit(n) ==
    /\ pool.pc = "idle"
    /\ pool' = [pool EXCEPT !.pc = "submitted", !.netuids = 1..n,
                            !.queue = [i \in 1..n |-> i],
                            !.started = [t \in 1..n |-> 0]]
    /\ UNCHANGED <<readVars, batchQueue, stakeQueue, workerVars, race>>

(* ThreadPoolExecutor(max_workers=10) (line 60)                             *)
HasIdleWorker(running) == Cardinality(running) < MAX_WORKERS

(* A thread of the pool takes the oldest submitted call.                    *)
PoolStart ==
    /\ pool.pc = "submitted"
    /\ pool.queue # <<>>
    /\ HasIdleWorker(pool.running)
    /\ LET t == Head(pool.queue)
       IN pool' = [pool EXCEPT !.queue = Tail(@), !.running = @ \cup {t},
                               !.started[t] = @ + 1]
    /\ UNCHANGED <<readVars, batchQueue, stakeQueue, workerVars, race>>

(* A call returns its map, or None when the registry raised.                *)
PoolFinish ==
    /\ \E t \in pool.running, outcome \in PoolOutcomes :
         pool' = [pool EXCEPT !.running = @ \ {t},
                              !.results = @ @@ (t :> outcome)]
    /\ UNCHANGED <<readVars, batchQueue, stakeQueue, workerVars, race>>

(* An executor shut down without waiting for its calls.                     *)
JoinAtOnce(p) == TRUE

(* The end of the with block (lines 60-61): shutdown(wait=True) returns     *)
(* when no call is queued or running.                                       *)
JoinReady(p) == p.queue = <<>> /\ p.running = {}

(* Lines 62-66: the results are merged and returned.                        *)
PoolJoin ==
    /\ pool.pc = "submitted"
    /\ JoinReady(pool)
    /\ pool' = [pool EXCEPT
                  !.pc = "returned",
                  !.data = get_hotkeys_and_dividends_for_all_netuids_threadpool(
                               DOMAIN pool.results, pool.results)]
    /\ UNCHANGED <<readVars, batchQueue, stakeQueue, workerVars, race>>

PoolNext ==
    \/ \E n \in 0..MaxSubnets : PoolSubmit(n)
    \/ PoolStart
    \/ PoolFinish
    \/ PoolJoin

----------------------------------------------------------------------------
(* Two requests for a single key in flight at once (lines 153-170) *)

IdleRacer ==
    [pc |-> "idle", netuid |-> NoNetuid, hotkey |-> "", cached |-> FALSE,
     dividend |-> PyNone, reads |-> 0, sets |-> 0]

(* reqs are the two requests; last records, for every key, the amount and   *)
(* the time of the setex the store applied last.                            *)
IdleRace == [reqs |-> [i \in 1..2 |-> IdleRacer], last |-> <<>>]

(* The request arrives with a valid token, a netuid and a hotkey.           *)
RaceReceive(i, netuid, hotkey) ==
    /\ race.reqs[i].pc = "idle"
    /\ race' = [race EXCEPT !.reqs[i] = [IdleRacer EXCEPT !.pc = "get",
                                             !.netuid = netuid,
                                             !.hotkey = hotkey]]
    /\ UNCHANGED <<readVars, batchQueue, stakeQueue, workerVars, pool>>

(* cached = await redis_instance.get(cache_key) (lines 153-159)             *)
RaceGet(i) ==
    /\ race.reqs[i].pc = "get"
    /\ LET r == race.reqs[i]
           value == RedisGet(cache, cache_key(r.netuid, r.hotkey), now)
       IN race' = [race EXCEPT !.reqs[i].pc =
                                   IF AfterGet(value) = "read" THEN "read" ELSE "done",
                               !.reqs[i].cached = Truthy(value)]
    /\ UNCHANGED <<readVars, batchQueue, stakeQueue, workerVars, pool>>

(* The registry read of a miss (lines 160-169).                             *)
RaceRead(i) ==
    /\ race.reqs[i].pc = "read"
    /\ \E outcome \in FetchOutcomes :
         LET r == race.reqs[i]
             res == get_hotkeys_and_dividends_for_netuid(r.netuid, outcome)
         IN race' = [race EXCEPT
                       !.reqs[i].reads = @ + 1,
                       !.reqs[i].pc = IF DOMAIN res = {} THEN "done" ELSE "store",
                       !.reqs[i].dividend =
                           IF DOMAIN res = {} THEN PyNone
                           ELSE Extract(res, r.netuid, r.hotkey)]
    /\ UNCHANGED <<readVars, batchQueue, stakeQueue, workerVars, pool>>

(* await redis_instance.setex(cache_key, CACHE_EXPIRATION, dividend)        *)
(* (line 170), with no lock around the get, the read and the setex.         *)
RaceSet(i) ==
    /\ race.reqs[i].pc = "store"
    /\ LET r == race.reqs[i]
           key == cache_key(r.netuid, r.hotkey)
       IN IF Encodable(r.dividend)
          THEN /\ cache' = RedisSetex(cache, key, Ttl, r.dividend, now)
               /\ race' = [race EXCEPT
                             !.reqs[i].pc = "done", !.reqs[i].sets = @ + 1,
                             !.last = (key :> [by |-> i, amount |-> r.dividend.v,
                                               at |-> now]) @@ @]
          ELSE /\ cache' = cache
               /\ race' = [race EXCEPT !.reqs[i].pc = "done"]
    /\ UNCHANGED <<now, req, nreq, batchQueue, stakeQueue, workerVars, pool>>

RaceNext ==
    \/ \E i \in 1..2, netuid \in Netuids, hotkey \in Hotkeys :
         RaceReceive(i, netuid, hotkey)
    \/ \E i \in 1..2 : RaceGet(i)
    \/ \E i \in 1..2 : RaceRead(i)
    \/ \E i \in 1..2 : RaceSet(i)
    \/ Tick

----------------------------------------------------------------------------

Init ==
    /\ now = 0
    /\ cache = <<>>
    /\ req = IdleReq
    /\ nreq = 0
    /\ batchQueue = <<>>
    /\ stakeQueue = <<>>
    /\ wf = IdleRun
    /\ nruns = 0
    /\ stakeCalls = {}
    /\ stakeOps = {}
    /\ bt = IdleBatch
    /\ nbatches = 0
    /\ dividendsTable = {}
    /\ pool = IdlePool
    /\ race = IdleRace

Serve ==
    \/ \E auth \in AuthHeaders, netuid \in Netuids \cup {NoNetuid},
          hotkey \in Hotkeys \cup {""}, trade \in BOOLEAN :
            Receive(auth, netuid, hotkey, trade)
    \/ LookupAll
    \/ LookupSubnet
    \/ CacheGet
    \/ RegistryRead
    \/ CacheSet
    \/ Build

Next == Serve \/ TakeJob \/ Tick

(* A request arrives while no worker has started a job yet, so that the     *)
(* jobs followed through the workers are those of one request.              *)
JobsReceive ==
    /\ nruns = 0 /\ nbatches = 0
    /\ \E auth \in AuthHeaders, netuid \in Netuids \cup {NoNetuid},
          hotkey \in Hotkeys \cup {""}, trade \in BOOLEAN :
            Receive(auth, netuid, hotkey, trade)

JobsNext ==
    \/ JobsReceive
    \/ LookupAll
    \/ LookupSubnet
    \/ CacheGet
    \/ RegistryRead
    \/ CacheSet
    \/ Build
    \/ StartRun
    \/ FetchSignal
    \/ Score
    \/ Submit
    \/ Record
    \/ StoreBatch

(* The read endpoint, the cache and the clock.                              *)
Spec == Init /\ [][Next]_vars

(* The sentiment-stake workflow on its Celery worker.                       *)
SpecStake == Init /\ [][StakeWorker]_vars

(* The dividend batch task on its Celery worker.                            *)
SpecBatch == Init /\ [][BatchWorker]_vars

(* The endpoint together with the two Celery tasks: the jobs a request      *)
(* enqueues are taken and run by the workers.                               *)
SpecJobs == Init /\ [][JobsNext]_vars

(* One fan-out of an all-subnets query on its thread pool.                  *)
SpecPool == Init /\ [][PoolNext]_vars

(* Two single-key requests served at the same time.                         *)
SpecRace == Init /\ [][RaceNext]_vars

----------------------------------------------------------------------------
(* Properties *)

(* The request is a single (subnet, validator) query.                       *)
SingleQuery == req.netuid # NoNetuid /\ req.hotkey # ""

(* The request was answered by the endpoint (it passed the token check).    *)
Answered == req.pc = "done" /\ req.status = 200

(* The calls and rows of the workflow run in progress.                      *)
RunCalls == {c \in stakeCalls : c.run = wf.run}
RunRows == {row \in stakeOps : row.run = wf.run}

(* C1: a single (subnet, validator) query that finds an entry written by an *)
(* earlier identical query less than the TTL ago returns a row with         *)
(* cached=true whose dividend is the amount the earlier query returned.     *)
C1_HitReturnsFirstAmount ==
    (Answered /\ SingleQuery /\ 0 <= req.entryAge /\ req.entryAge < 120)
        => /\ req.success
           /\ \E row \in req.result :
                /\ row.netuid = req.netuid /\ row.hotkey = req.hotkey
                /\ row.cached
                /\ row.dividend = req.servedAtGet

(* C2: a single (subnet, validator) query that looks its key up 120 s or    *)
(* more after the entry was written is not served from the cache: it is a   *)
(* miss, the registry is read, and no row of the response has cached=true.  *)
C2_ExpiredEntryNotServed ==
    (SingleQuery /\ req.entryAge >= 120)
        => /\ req.cached = FALSE
           /\ req.pc # "read" => req.regReads = {req.netuid}
           /\ \A row \in req.result : row.cached = FALSE

C2_Witness ==
    /\ Answered /\ SingleQuery /\ req.entryAge >= 120
    /\ req.success
    /\ \E row \in req.result : row.cached = FALSE /\ row.dividend = PyFloat(5)

(* C3: a run with an in-range score s > 0 submits one add_stake of 0.1*s,   *)
(* with s < 0 one unstake of abs(0.1*s) (10.0 for s=100, 5.0 for s=-50),    *)
(* for the subnet and the validator key of the job.                         *)
C3_StakeCall ==
    (wf.pc \in {"record", "done"} /\ wf.scored = 1 /\ wf.score.t = "int"
        /\ -100 <= wf.score.v /\ wf.score.v <= 100 /\ wf.score.v # 0)
        => /\ Cardinality(RunCalls) = 1
           /\ \A c \in RunCalls :
                /\ c.operation = IF wf.score.v > 0 THEN "stake" ELSE "unstake"
                /\ RatEq(c.amount,
                         Rat(IF wf.score.v > 0 THEN wf.score.v ELSE -wf.score.v, 10))
                /\ wf.score.v = 100 => RatEq(c.amount, Rat(10, 1))
                /\ wf.score.v = -50 => RatEq(c.amount, Rat(5, 1))
                /\ c.netuid = wf.netuid
                /\ c.hotkey_ss58 = wf.hotkey

C3_Witness ==
    /\ wf.pc = "record" /\ wf.score = PyInt(-50)
    /\ \E c \in RunCalls : c.operation = "unstake" /\ RatEq(c.amount, Rat(5, 1))

(* C4: a run whose score is exactly zero ends without a stake or unstake    *)
(* call and without a persisted row.                                        *)
C4_ZeroScoreNoEffect ==
    (wf.scored = 1 /\ wf.score = PyInt(0))
        => /\ RunCalls = {} /\ RunRows = {}
           /\ wf.pc \in {"submit", "done"}
           /\ wf.pc = "done" => wf.ended = "zero"

C4_Witness == wf.pc = "done" /\ wf.score = PyInt(0) /\ wf.ended = "zero"

(* C5: a run whose scoring step gives no integer or a score outside         *)
(* [-100, 100] ends there without a call and without a row; the scores -100 *)
(* and 100 are accepted and go on to the submit step.                       *)
C5_BadScoreAborts ==
    /\ (wf.scored = 1 /\ (wf.score.t # "int" \/ wf.score.v < -100 \/ wf.score.v > 100))
          => /\ wf.pc = "done"
             /\ wf.ended \in {"no_score", "out_of_range"}
             /\ RunCalls = {} /\ RunRows = {}
    /\ (wf.scored = 1 /\ wf.score \in {PyInt(-100), PyInt(100)})
          => /\ wf.pc \in {"submit", "record", "done"}
             /\ wf.pc = "done" => (wf.calls = 1 /\ wf.ended \in {"recorded", "store_failed"})

C5_Witness ==
    wf.pc = "done" /\ wf.score = PyInt(150) /\ wf.ended = "out_of_range"

(* C6 as stated: a finished run that submitted a stake or unstake has       *)
(* exactly one persisted row, whose status is 'completed' when the call     *)
(* returned success and 'failed' when it returned failure or raised.        *)
C6_ExactlyOneRow ==
    (wf.pc = "done" /\ wf.calls = 1)
        => /\ Cardinality(RunRows) = 1
           /\ \A row \in RunRows :
                row.status = IF wf.outcome = "true" THEN "completed" ELSE "failed"

(* C6 amended: a finished run that submitted a stake or unstake tried the   *)
(* insert once; it has exactly one persisted row when the insert committed  *)
(* and none when the commit raised and was rolled back; the row's status is *)
(* 'completed' when the call returned success, else 'failed'.               *)
C6_OneRowWhenCommitted ==
    (wf.pc = "done" /\ wf.calls = 1)
        => /\ wf.ended \in {"recorded", "store_failed"}
           /\ Cardinality(RunRows) = IF wf.ended = "recorded" THEN 1 ELSE 0
           /\ \A row \in RunRows :
                row.status = IF wf.outcome = "true" THEN "completed" ELSE "failed"

C6_Witness ==
    /\ wf.pc = "done" /\ wf.calls = 1 /\ wf.outcome = "raised"
    /\ \E row \in RunRows : row.status = "failed"

(* The rows of the dividends table that come from the last batch run.       *)
BatchRowsStored == {row \in dividendsTable : row.batch = bt.id}

(* A dict of a batch that cannot become a row of the dividends table.       *)
Malformed(row) == row.extra \/ row.amount.t = "none"

(* C7: after store_dividends_batch_task has run on a batch, either every    *)
(* row of the batch is in the dividends table or none is; none is when a    *)
(* row of the batch is malformed or the commit failed.                      *)
C7_BatchAllOrNothing ==
    bt.id > 0
        => /\ \/ BatchRowsStored = {}
              \/ BatchRowsStored = {DividendRow(bt.id, row) : row \in bt.batch}
           /\ (\E row \in bt.batch : Malformed(row)) => BatchRowsStored = {}
           /\ bt.outcome = "rolled_back" => BatchRowsStored = {}
           /\ bt.outcome = "committed" => BatchRowsStored # {}

C7_Witness ==
    /\ bt.outcome = "rolled_back" /\ BatchRowsStored = {}
    /\ \E bad \in bt.batch, good \in bt.batch : Malformed(bad) /\ ~Malformed(good)

(* C8: a request whose Authorization header is missing or is not            *)
(* "Bearer <api_key>" is answered 401.                                      *)
C8_BadTokenIs401 ==
    (req.pc = "done" /\ req.auth # Bearer(api_key)) => req.status = 401

(* C9: every request with trade=true that the endpoint answered without an  *)
(* exception called the stake job's delay with (netuid or the default       *)
(* subnet, hotkey or the default key), whatever its lookup found.           *)
C9_TradeAlwaysSchedules ==
    (Answered /\ req.trade /\ req.msg # "exception")
        => req.stakeArgs =
              {<<IF req.netuid = NoNetuid THEN wallet_netuid ELSE req.netuid,
                 IF req.hotkey = "" THEN wallet_hotkey ELSE req.hotkey>>}

(* C10: a request with trade=false enqueues no stake job: while such a      *)
(* request is the latest one, the stake queue is empty.                     *)
C10_NoTradeNoStakeJob ==
    ~req.trade => (stakeQueue = <<>> /\ req.stakeArgs = {} /\ req.staked = {})

C10_Witness ==
    /\ Answered /\ ~req.trade /\ req.success /\ req.batches = 1
    /\ batchQueue # <<>> /\ stakeQueue = <<>>

(* The subnets of the request whose fetch raised, and those whose fetch     *)
(* returned a dividend map.                                                 *)
FailedSubnets == {n \in DOMAIN req.fetched : ~req.fetched[n].ok}
FetchedSubnets == {n \in DOMAIN req.fetched : req.fetched[n].ok}

(* C11: in an answered all-subnets query with a failed fetch, the failed    *)
(* subnet has no row, every (validator, amount) of every subnet whose fetch *)
(* succeeded has its row, and the response is success=true as soon as one   *)
(* fetch succeeded.                                                         *)
C11_FailedSubnetDropped ==
    (Answered /\ req.netuid = NoNetuid /\ FailedSubnets # {})
        => /\ \A row \in req.result : row.netuid \notin FailedSubnets
           /\ \A n \in FetchedSubnets : \A h \in DOMAIN req.fetched[n].map :
                \E row \in req.result :
                    /\ row.netuid = n /\ row.hotkey = h
                    /\ row.dividend = PyFloat(req.fetched[n].map[h])
           /\ FetchedSubnets # {} => req.success

C11_Witness ==
    /\ Answered /\ req.netuid = NoNetuid /\ req.success
    /\ FailedSubnets = {0} /\ FetchedSubnets = {1}
    /\ \E row \in req.result :
         row.netuid = 1 /\ row.hotkey = "hkA" /\ row.dividend = PyFloat(5)

(* C12: the subnet ids in the rows of a request without netuid are among    *)
(* the ids the request's get_all_netuids call returned (none when the call  *)
(* raised).                                                                 *)
C12_RowsWithinListing ==
    req.netuid = NoNetuid
        => {row.netuid : row \in req.result}
              \subseteq (IF req.listing.ok THEN req.listing.netuids ELSE {})

C12_Witness ==
    /\ Answered /\ req.netuid = NoNetuid
    /\ req.listing.ok /\ req.listing.netuids = {0, 1}
    /\ {row.netuid : row \in req.result} = {1}

(* C13: an answered request has success=true exactly when its result has a  *)
(* row; a response without rows is success=false with a message.            *)
C13_SuccessHasRows ==
    Answered => /\ req.success => req.result # {}
                /\ req.result = {} => (~req.success /\ req.msg # "")

(* C14 as stated: a request with netuid=0 enumerates all subnets, as a      *)
(* request without netuid does.                                             *)
C14_ZeroEnumeratesAll ==
    (Answered /\ req.netuid = 0) => req.listed

(* C14 amended: a request with netuid=0 is a query of subnet 0: it does not *)
(* list the subnets, reads at most subnet 0 and returns rows of subnet 0    *)
(* only; a request without netuid is the one that lists all subnets.        *)
C14_ZeroIsSubnetZero ==
    /\ (Answered /\ req.netuid = 0)
          => /\ ~req.listed
             /\ req.regReads \subseteq {0}
             /\ \A row \in req.result : row.netuid = 0
    /\ (Answered /\ req.netuid = NoNetuid) => req.listed

C14_Witness ==
    /\ Answered /\ req.netuid = 0 /\ req.hotkey = ""
    /\ ~req.listed /\ req.regReads = {0}
    /\ \E row \in req.result : row.netuid = 0

(* C15: a single (subnet, validator) query during which the cache store's   *)
(* get or set raised still reads the registry and is answered without the   *)
(* failure envelope, with no row marked cached.                             *)
C15_CacheDownIsMiss ==
    (Answered /\ SingleQuery /\ req.cacheDown)
        => /\ req.regReads = {req.netuid}
           /\ req.msg # "exception"
           /\ \A row \in req.result : ~row.cached

(* C16: a request whose delay of the batch job or of the stake job raised   *)
(* is answered success=true with the rows of its lookup, the rows it has    *)
(* when both delays succeed.                                                *)
C16_EnqueueFailureKeepsResponse ==
    req.brokerDown
        => /\ Answered /\ req.success
           /\ req.result = ResponseItems(req.nhd, req.trade, req.cached)
           /\ DOMAIN req.nhd # {}

C16_Witness ==
    /\ req.brokerDown /\ Answered /\ req.success
    /\ req.trade /\ req.batches = 0 /\ req.stakeArgs # {} /\ req.staked = {}
    /\ \E row \in req.result : row.dividend = PyFloat(5)

(* C17: a run whose get_tweets raised or returned no items ends there: the  *)
(* scoring API is not called, no stake or unstake is submitted and no row   *)
(* is persisted.                                                            *)
C17_NoSignalAborts ==
    wf.tweets \in {"empty", "raised"}
        => /\ wf.pc = "done" /\ wf.ended = "no_tweets"
           /\ wf.scored = 0 /\ wf.calls = 0
           /\ RunCalls = {} /\ RunRows = {}

C17_Witness ==
    wf.pc = "done" /\ wf.tweets = "empty" /\ wf.ended = "no_tweets"

(* C18: a single (subnet, validator) query that hit the cache reads no      *)
(* subnet from the registry and writes no cache entry.                      *)
C18_HitReadsNothing ==
    (SingleQuery /\ req.cached)
        => /\ req.pc \in {"build", "done"}
           /\ req.regReads = {} /\ req.cacheSets = {}
           /\ req.fetched = <<>>

C18_Witness ==
    /\ Answered /\ SingleQuery /\ req.cached /\ req.success
    /\ req.entryAge >= 0 /\ req.entryAge < 120
    /\ \E row \in req.result : row.cached

(* C19: the step that stores the amount fetched on a miss, when the store   *)
(* takes the write, changes the cache at the requested key only: the entry  *)
(* holds the fetched amount and expires 120 s later, every other entry is   *)
(* as before, and the rows of the response are cached=false; a store that   *)
(* raises leaves the cache as it was.                                       *)
C19_MissWritesOneEntry ==
    [][/\ (req.pc = "store" /\ req' # req
                /\ req.hotkey \in DOMAIN req.fetched[req.netuid].map)
            => LET key == cache_key(req.netuid, req.hotkey)
                   amount == req.fetched[req.netuid].map[req.hotkey]
               IN IF req'.cacheDown
                  THEN cache' = cache
                  ELSE /\ req'.pc = "build"
                       /\ req'.cacheSets = {key}
                       /\ DOMAIN cache' = DOMAIN cache \cup {key}
                       /\ \A k \in DOMAIN cache : k # key => cache'[k] = cache[k]
                       /\ cache'[key].value = PyBytes(amount)
                       /\ cache'[key].expires_at = now + 120
                       /\ req'.cached = FALSE
       /\ (req.pc = "build" /\ req.cacheSets # {} /\ req'.pc = "done")
            => /\ cache' = cache
               /\ \A row \in req'.result : ~row.cached
               /\ \E row \in req'.result :
                    /\ row.netuid = req.netuid /\ row.hotkey = req.hotkey
                    /\ row.dividend =
                          PyFloat(req.fetched[req.netuid].map[req.hotkey])]_vars

C19_Witness ==
    /\ Answered /\ SingleQuery /\ ~req.cached /\ req.success
    /\ req.fetched[req.netuid].map = ("hkA" :> 5) @@ ("hkB" :> 0)
    /\ req.cacheSets = {cache_key(req.netuid, req.hotkey)}
    /\ DOMAIN cache = {cache_key(req.netuid, req.hotkey)}
    /\ cache[cache_key(req.netuid, req.hotkey)].expires_at = now + 120

(* C20: a single (subnet, validator) miss whose fetched map has no amount   *)
(* for the validator is answered without the failure envelope, with a row   *)
(* for that (subnet, validator).                                            *)
C20_AbsentKeyStillAnswered ==
    (Answered /\ SingleQuery /\ ~req.cacheDown /\ req.regReads = {req.netuid}
        /\ req.fetched[req.netuid].ok
        /\ req.hotkey \notin DOMAIN req.fetched[req.netuid].map)
        => /\ req.msg # "exception"
           /\ \E row \in req.result :
                row.netuid = req.netuid /\ row.hotkey = req.hotkey

(* C21: every registry dividend read of an answered request, whatever the  *)
(* shape of the query, ran on a thread of the worker pool.                  *)
C21_ReadsOnPool ==
    Answered => req.readOn \subseteq {"pool"}

(* The request is partial: netuid omitted, or netuid given without hotkey.  *)
PartialQuery == req.netuid = NoNetuid \/ req.hotkey = ""

(* C23: a partial query performs no cache get and no cache set, asks the    *)
(* registry (the list of subnets, or the subnet's dividends), and all its   *)
(* rows are cached=false.                                                   *)
C23_PartialSkipsCache ==
    (req.pc \in {"build", "done"} /\ req.status \in {0, 200} /\ PartialQuery)
        => /\ req.cacheGets = 0 /\ req.cacheSets = {} /\ ~req.cacheDown
           /\ req.entryAge = -1
           /\ req.listed \/ req.regReads = {req.netuid}
           /\ ~req.cached
           /\ \A row \in req.result : ~row.cached

C23_Witness ==
    /\ Answered /\ req.netuid = 1 /\ req.hotkey = "" /\ req.success
    /\ DOMAIN cache # {}
    /\ req.regReads = {1}
    /\ \E row \in req.result : row.hotkey = "hkA" /\ ~row.cached

(* C24: a request answered from a cache hit hands no dividend batch to the  *)
(* broker.                                                                  *)
C24_HitEnqueuesNoBatch ==
    (Answered /\ SingleQuery /\ req.cached)
        => (req.batches = 0 /\ batchQueue = <<>>)

(* C28: an all-subnets query whose get_all_netuids raised fetches no        *)
(* subnet and is answered success=false with no row and the not-found       *)
(* message, not through the exception handler.                              *)
C28_ListingFailureIsEmpty ==
    (req.netuid = NoNetuid /\ req.listed /\ ~req.listing.ok)
        => /\ req.all_netuids = {} /\ req.regReads = {} /\ req.fetched = <<>>
           /\ req.msg = "not_found_netuids"
           /\ req.pc = "done"
                => (req.status = 200 /\ ~req.success /\ req.result = {})

C28_Witness ==
    /\ Answered /\ req.netuid = NoNetuid /\ req.listed /\ ~req.listing.ok
    /\ ~req.success /\ req.msg = "not_found_netuids"

(* C30: a request whose Authorization header is not "Bearer <api_key>" ends *)
(* at the token check: no cache get or set, no registry call, no batch and  *)
(* no stake job, and the cache and the queues are as they were.             *)
C30_RejectedHasNoEffect ==
    [][(req'.pc # "idle" /\ req'.auth # Bearer(api_key) /\ req' # req)
          => /\ req'.pc = "done" /\ req'.status \in {401, 422}
             /\ req'.cacheGets = 0 /\ req'.cacheSets = {} /\ ~req'.cacheDown
             /\ req'.regReads = {} /\ ~req'.listed /\ req'.readOn = {}
             /\ req'.batches = 0 /\ req'.stakeArgs = {} /\ req'.staked = {}
             /\ req'.result = {} /\ ~req'.success
             /\ cache' = cache
             /\ batchQueue' = batchQueue /\ stakeQueue' = stakeQueue
             /\ workerVars' = workerVars]_vars

C30_Witness ==
    /\ req.pc = "done" /\ req.status = 401 /\ req.netuid = 0 /\ req.hotkey = "hkA"
    /\ req.trade
    /\ DOMAIN cache # {}

(* The steps of a workflow run, in the order of the task.                   *)
WorkflowSteps == <<"fetch", "score", "submit", "record">>

(* C26: the steps of a run happen at most once each, in the order fetch,    *)
(* score, submit, record; the registry call is made only after a score in   *)
(* [-100, 100] other than 0, the row is written only after the call         *)
(* returned or raised, and a run that ended takes no further step.          *)
C26_StepsInOrder ==
    /\ [](/\ Len(wf.trail) <= Len(WorkflowSteps)
          /\ wf.trail = SubSeq(WorkflowSteps, 1, Len(wf.trail))
          /\ wf.scored <= 1 /\ wf.calls <= 1 /\ wf.rows <= 1
          /\ Cardinality(RunCalls) = wf.calls /\ Cardinality(RunRows) = wf.rows
          /\ wf.calls = 1
               => /\ Len(wf.trail) >= 3 /\ wf.scored = 1 /\ wf.score.t = "int"
                  /\ -100 <= wf.score.v /\ wf.score.v <= 100 /\ wf.score.v # 0
          /\ (wf.rows = 1 \/ Len(wf.trail) = 4)
               => (wf.calls = 1 /\ wf.outcome \in {"true", "false", "raised"}))
    /\ [][(wf.pc = "done" /\ wf'.run = wf.run)
             => (wf' = wf /\ stakeCalls' = stakeCalls /\ stakeOps' = stakeOps)]_vars

C26_Witness ==
    /\ wf.pc = "done" /\ wf.trail = WorkflowSteps /\ wf.ended = "recorded"
    /\ wf.outcome = "raised" /\ wf.run = 2

(* C29: every persisted row has a sentiment_score in [-100, 100] other      *)
(* than 0, operation 'stake' exactly for a positive and 'unstake' exactly   *)
(* for a negative score, amount 0.1*score with the sign of the score, and   *)
(* status 'completed' or 'failed'.                                          *)
C29_RowInvariant ==
    \A row \in stakeOps :
        /\ -100 <= row.sentiment_score /\ row.sentiment_score <= 100
        /\ row.sentiment_score # 0
        /\ row.operation \in {"stake", "unstake"}
        /\ row.operation = "stake" <=> row.sentiment_score > 0
        /\ row.operation = "unstake" <=> row.sentiment_score < 0
        /\ RatEq(row.amount, Rat(row.sentiment_score, 10))
        /\ row.operation = "stake" => row.amount.num * row.amount.den > 0
        /\ row.operation = "unstake" => row.amount.num * row.amount.den < 0
        /\ row.status \in {"completed", "failed"}

C29_Witness ==
    \E row \in stakeOps :
        /\ row.sentiment_score = -100 /\ row.operation = "unstake"
        /\ RatEq(row.amount, Rat(-10, 1)) /\ row.status = "completed"

(* C22: in a fan-out every submitted netuid is fetched at most once and,    *)
(* when the merged result is returned, exactly once; at most 10 fetches run *)
(* at a time; the result is returned only when every fetch has finished,    *)
(* with a map or with None.                                                 *)
C22_OneFetchPerSubnet ==
    /\ Cardinality(pool.running) <= 10
    /\ \A t \in DOMAIN pool.started : pool.started[t] <= 1
    /\ DOMAIN pool.results \subseteq pool.netuids
    /\ pool.pc = "returned"
         => /\ pool.queue = <<>> /\ pool.running = {}
            /\ DOMAIN pool.results = pool.netuids
            /\ \A t \in pool.netuids : pool.started[t] = 1
            /\ DOMAIN pool.data = {t \in pool.netuids : pool.results[t].ok}

C22_Witness ==
    /\ pool.pc = "returned" /\ Cardinality(pool.netuids) = 11
    /\ \E t \in pool.netuids : ~pool.results[t].ok
    /\ \E t \in pool.netuids : pool.results[t].ok

(* The two requests ask for the same key and each missed the cache, read    *)
(* the registry and wrote the entry.                                        *)
BothMissedAndWrote ==
    /\ race.reqs[1].netuid = race.reqs[2].netuid
    /\ race.reqs[1].hotkey = race.reqs[2].hotkey
    /\ \A i \in 1..2 : /\ race.reqs[i].pc = "done" /\ ~race.reqs[i].cached
                       /\ race.reqs[i].sets = 1

(* C27: a request that misses reads the registry itself and, given an       *)
(* amount, writes the entry itself, whatever the other request is doing;    *)
(* after any number of such writes the entry of a key holds the amount of   *)
(* the write applied last and expires 120 s after that write.               *)
C27_LastWriteWins ==
    /\ \A i \in 1..2 :
         LET r == race.reqs[i]
         IN /\ r.pc \in {"store", "done"} /\ ~r.cached => r.reads = 1
            /\ r.cached => (r.reads = 0 /\ r.sets = 0)
            /\ (r.pc = "done" /\ r.dividend.t = "float") => r.sets = 1
    /\ DOMAIN cache = DOMAIN race.last
    /\ \A k \in DOMAIN race.last :
         /\ cache[k].value = PyBytes(race.last[k].amount)
         /\ cache[k].expires_at = race.last[k].at + 120
         /\ cache[k].written_at = race.last[k].at

C27_Witness ==
    /\ BothMissedAndWrote
    /\ race.reqs[1].dividend = PyFloat(5) /\ race.reqs[2].dividend = PyFloat(0)
    /\ LET k == cache_key(race.reqs[1].netuid, race.reqs[1].hotkey)
       IN /\ race.last[k].by = 1 /\ race.last[k].at = 60
          /\ cache[k].value = PyBytes(5) /\ cache[k].expires_at = 180

(* C25: the handler answers in the step that hands its jobs to the broker,  *)
(* while they are still queued and no worker has run; a step of a worker    *)
(* changes neither the response nor anything the endpoint reads (the clock, *)
(* the cache); a response once given stays as it is until the next request. *)
C25_FireAndForget ==
    [][/\ (req.pc = "build" /\ req' # req)
            => /\ req'.pc = "done"
               /\ workerVars' = workerVars
               /\ Len(batchQueue') = Len(batchQueue) + req'.batches
               /\ Len(stakeQueue') = Len(stakeQueue) + Cardinality(req'.staked)
       /\ workerVars' # workerVars
            => (req' = req /\ cache' = cache /\ now' = now /\ nreq' = nreq)
       /\ (req.pc = "done" /\ nreq' = nreq) => req' = req]_vars

C25_Witness ==
    /\ Answered /\ req.success /\ req.trade /\ req.batches = 1 /\ req.staked # {}
    /\ wf.pc = "done" /\ wf.ended = "store_failed"
    /\ bt.outcome = "rolled_back"
    /\ batchQueue = <<>> /\ stakeQueue = <<>>

(* C31: every row of a response has stake_tx_triggered equal to the         *)
(* request's trade flag, also when the delay of the stake job raised and no *)
(* job reached the queue.                                                   *)
C31_FlagIsTradeFlag ==
    \A row \in req.result : row.stake_tx_triggered = req.trade

C31_Witness ==
    /\ Answered /\ req.success /\ req.trade
    /\ req.stakeArgs # {} /\ req.staked = {} /\ stakeQueue = <<>>
    /\ \E row \in req.result : row.stake_tx_triggered

============================================================================
